---- MODULE Spec2Model ----
(***************************************************************************)
(* A model of EddyTracks.py: DifferentiateEddies, fillCoords, haversine    *)
(* and geodist.  One behaviour is one call of one of the three functions   *)
(* that loop (op), with its arguments drawn at the call; every loop        *)
(* iteration is one step.                                                  *)
(*                                                                         *)
(* Coordinates are exact rationals [n, d] in lowest terms with d > 0       *)
(* (NumPy computes the same expressions in float64).  haversine is         *)
(* evaluated on the grid of multiples of 90 degrees, where the sines and   *)
(* cosines are 0, 1/2 and 1, and its result is an integer count of         *)
(* (pi/2) km: R times the central angle in quarter turns.                  *)
(***************************************************************************)
EXTENDS Integers, Sequences, FiniteSets

\* ---------------------------------------------------------------- bounds
MaxLen == 3
MaxGap == 2
MaxPts == 3
MaxTracks == 3

FirstSteps == {0, 2}
Deltas == (-1) .. (MaxGap + 1)
LonVals == {0, 3}
LatVals == {0, 1}
ValidFill == {"midpoint", "linear", "begin", "end"}
FillArgs == ValidFill \cup {"nearest"}

GeoLonVals == {0, 90, 180}
GeoLatVals == {-90, 0, 90}

TypeVals == {-1, 0, 1}
StepChoices == {<<1>>, <<0, 1>>, <<0, 3>>}
LifetimeVals == {0, 2, 3, 5}

Unbound == "unbound"

\* ------------------------------------------------------------ arithmetic
Abs(x) == IF x < 0 THEN -x ELSE x

RECURSIVE GCD(_, _)
GCD(a, b) == IF b = 0 THEN a ELSE GCD(b, a % b)

\* the rational n/d (d # 0) in lowest terms with a positive denominator
Frac(n, d) ==
    LET s == IF d < 0 THEN -1 ELSE 1
        g == GCD(Abs(n), Abs(d))
    IN  [n |-> (s * n) \div g, d |-> (s * d) \div g]

SeqsUpTo(S, lo, hi) == UNION {[1 .. n -> S] : n \in lo .. hi}

\* ------------------------------------------------------------ fillCoords
\* mutant: np.arange(prev, step, 1.)
stepFill_fromPrev(prev, step) == [k \in 1 .. (step - prev) |-> prev + k - 1]

\* np.arange(prev+1, step, 1.)
stepFill(prev, step) == [k \in 1 .. (step - prev - 1) |-> prev + k]

\* np.ones(num) * v
ones(num, v) == [k \in 1 .. num |-> v]

\* np.linspace(start, stop, num=num): both endpoints included, num = 1 gives start
linspace(start, stop, num) ==
    [k \in 1 .. num |->
        IF num = 1 THEN Frac(start, 1)
        ELSE Frac(start * (num - 1) + (k - 1) * (stop - start), num - 1)]

\* mutant: lon + trackLons[i-1] / 2
midpoint_unparenthesised(a, b) == Frac(2 * a + b, 2)

\* (lon + trackLons[i-1]) / 2
midpoint(a, b) == Frac(a + b, 2)

\* mutant: the bodies of the begin and end branches exchanged
coordFill_swapped(mode, before, after, numFill) ==
    CASE mode = "midpoint" -> ones(numFill, midpoint(after, before))
      [] mode = "linear"   -> linspace(before, after, numFill)
      [] mode = "begin"    -> ones(numFill, Frac(after, 1))
      [] mode = "end"      -> ones(numFill, Frac(before, 1))

\* the if/elif chain of one gap: the fill array of one coordinate
coordFill(mode, before, after, numFill) ==
    CASE mode = "midpoint" -> ones(numFill, midpoint(after, before))
      [] mode = "linear"   -> linspace(before, after, numFill)
      [] mode = "begin"    -> ones(numFill, Frac(before, 1))
      [] mode = "end"      -> ones(numFill, Frac(after, 1))

\* step - prev > 1
isGap(prev, step) == step - prev > 1

\* mutant: the observed point appended before the fill
appendIter_observedFirst(out, filled, observed) == out \o <<observed>> \o filled

\* np.append(out, filled) followed by np.append(out, observed)
appendIter(out, filled, observed) == out \o filled \o <<observed>>

\* mutant: prev never updated
nextPrev_stale(prev, step) == prev

\* prev = step
nextPrev(prev, step) == step


\* ------------------------------------------------------------- haversine
\* radius of Earth (in km)
R == 6373

\* 2 * sin(d/2)^2 = 1 - cos(d), d a multiple of 90 degrees
TwoSinSqHalf(d) ==
    CASE d % 360 = 0   -> 0
      [] d % 360 = 90  -> 1
      [] d % 360 = 180 -> 2
      [] d % 360 = 270 -> 1

\* cos(d), d a multiple of 90 degrees
Cos(d) ==
    CASE d % 360 = 0   -> 1
      [] d % 360 = 90  -> 0
      [] d % 360 = 180 -> -1
      [] d % 360 = 270 -> 0

\* 2 * arctan2(sqrt(a), sqrt(1 - a)) in quarter turns, for 2a in {0, 1, 2}
CentralAngle(a2) ==
    CASE a2 = 0 -> 0
      [] a2 = 1 -> 1
      [] a2 = 2 -> 2

haversine(lon1, lat1, lon2, lat2) ==
    LET dlon == lon2 - lon1
        dlat == lat2 - lat1
        a2 == TwoSinSqHalf(dlat) + Cos(lat1) * Cos(lat2) * TwoSinSqHalf(dlon)
        c == CentralAngle(a2)
    IN  R * c

\* --------------------------------------------------------------- geodist
\* mutant: dist = haversine(...)
accumulate_overwrite(d, pLon, pLat, currLon, currLat) ==
    haversine(pLon, pLat, currLon, currLat)

\* dist += haversine(prevLon, prevLat, currLon, currLat)
accumulate(d, pLon, pLat, currLon, currLat) ==
    d + haversine(pLon, pLat, currLon, currLat)

\* --------------------------------------------------- DifferentiateEddies
\* track['step'][-1] - track['step'][0]+1
timesteps(track) == track.step[Len(track.step)] - track.step[1] + 1

\* mutant: timesteps > lifetime
isCyclone_strict(track, minLife) == timesteps(track) > minLife /\ track.type[1] = 1

\* timesteps >= lifetime and track['type'][0] == 1.
isCyclone(track, minLife) == timesteps(track) >= minLife /\ track.type[1] = 1

\* timesteps >= lifetime and track['type'][0] == -1.
isAnticyclone(track, minLife) == timesteps(track) >= minLife /\ track.type[1] = -1

\* a track record: its steps and its type, replicated across the timesteps
TrackChoices == {[step |-> s, type |-> ones(Len(s), t)] : s \in StepChoices, t \in TypeVals}

VARIABLES op, pc, i,
          trackSteps, trackLons, trackLats, fill, prev, steps, lons, lats,
          geoLons, geoLats, dist, prevLon, prevLat,
          tracks, lifetime, cTracks, aTracks

fillVars == <<trackSteps, trackLons, trackLats, fill, prev, steps, lons, lats>>
geoVars == <<geoLons, geoLats, dist, prevLon, prevLat>>
diffVars == <<tracks, lifetime, cTracks, aTracks>>
vars == <<op, pc, i, fillVars, geoVars, diffVars>>

StepSeqs ==
    {s \in SeqsUpTo(0 .. (2 + MaxLen * (MaxGap + 1)), 1, MaxLen) :
        /\ s[1] \in FirstSteps
        /\ \A k \in 2 .. Len(s) : s[k] - s[k - 1] \in Deltas}

fillIdle ==
    /\ trackSteps = <<>> /\ trackLons = <<>> /\ trackLats = <<>>
    /\ fill = "linear" /\ prev = 0
    /\ steps = <<>> /\ lons = <<>> /\ lats = <<>>

geoIdle ==
    /\ geoLons = <<>> /\ geoLats = <<>> /\ dist = 0
    /\ prevLon = Unbound /\ prevLat = Unbound

diffIdle ==
    /\ tracks = <<>> /\ lifetime = 0 /\ cTracks = <<>> /\ aTracks = <<>>

InitFill ==
    /\ op = "fillCoords"
    /\ pc = "loop" /\ i = 1
    /\ trackSteps \in StepSeqs
    /\ trackLons \in [1 .. Len(trackSteps) -> LonVals]
    /\ trackLats \in [1 .. Len(trackSteps) -> LatVals]
    /\ fill \in FillArgs
    /\ prev = trackSteps[1]
    /\ steps = <<>> /\ lons = <<>> /\ lats = <<>>
    /\ geoIdle /\ diffIdle

\* one iteration of the for loop of fillCoords
fillCoordsIter ==
    /\ op = "fillCoords" /\ pc = "loop" /\ i <= Len(trackSteps)
    /\ LET step == trackSteps[i]
           lon == trackLons[i]
           lat == trackLats[i]
           numFill == Len(stepFill(prev, step))
       IN  \/ /\ isGap(prev, step)
              /\ fill \in ValidFill
              /\ steps' = appendIter(steps, stepFill(prev, step), step)
              /\ lons' = appendIter(lons, coordFill(fill, trackLons[i - 1], lon, numFill),
                                    Frac(lon, 1))
              /\ lats' = appendIter(lats, coordFill(fill, trackLats[i - 1], lat, numFill),
                                    Frac(lat, 1))
              /\ prev' = nextPrev(prev, step)
              /\ i' = i + 1
              /\ pc' = "loop"
           \/ /\ isGap(prev, step)
              /\ fill \notin ValidFill
              /\ pc' = "ValueError"
              /\ steps' = <<>> /\ lons' = <<>> /\ lats' = <<>>
              /\ UNCHANGED <<prev, i>>
           \/ /\ ~isGap(prev, step)
              /\ steps' = appendIter(steps, <<>>, step)
              /\ lons' = appendIter(lons, <<>>, Frac(lon, 1))
              /\ lats' = appendIter(lats, <<>>, Frac(lat, 1))
              /\ prev' = nextPrev(prev, step)
              /\ i' = i + 1
              /\ pc' = "loop"
    /\ UNCHANGED <<op, trackSteps, trackLons, trackLats, fill, geoVars, diffVars>>

\* return steps, lons, lats
fillCoordsReturn ==
    /\ op = "fillCoords" /\ pc = "loop" /\ i > Len(trackSteps)
    /\ pc' = "returned"
    /\ UNCHANGED <<op, i, fillVars, geoVars, diffVars>>

InitGeo ==
    /\ op = "geodist"
    /\ pc = "call" /\ i = 1
    /\ geoLons \in SeqsUpTo(GeoLonVals, 0, MaxPts)
    /\ geoLats \in SeqsUpTo(GeoLatVals, 0, MaxPts)
    /\ dist = 0 /\ prevLon = Unbound /\ prevLat = Unbound
    /\ fillIdle /\ diffIdle

\* the length check of geodist and dist = 0.
geodistEnter ==
    /\ op = "geodist" /\ pc = "call"
    /\ \/ /\ Len(geoLons) # Len(geoLats)
          /\ pc' = "ValueError"
       \/ /\ Len(geoLons) = Len(geoLats)
          /\ pc' = "loop"
    /\ UNCHANGED <<op, i, fillVars, geoVars, diffVars>>

\* one iteration of the for loop of geodist
geodistIter ==
    /\ op = "geodist" /\ pc = "loop" /\ i <= Len(geoLons)
    /\ LET currLon == geoLons[i]
           currLat == geoLats[i]
       IN  /\ \/ /\ i > 1
                 /\ dist' = accumulate(dist, prevLon, prevLat, currLon, currLat)
              \/ /\ ~(i > 1)
                 /\ dist' = dist
           /\ prevLon' = currLon
           /\ prevLat' = currLat
    /\ i' = i + 1
    /\ UNCHANGED <<op, pc, geoLons, geoLats, fillVars, diffVars>>

\* return dist
geodistReturn ==
    /\ op = "geodist" /\ pc = "loop" /\ i > Len(geoLons)
    /\ pc' = "returned"
    /\ UNCHANGED <<op, i, fillVars, geoVars, diffVars>>

InitDiff ==
    /\ op = "DifferentiateEddies"
    /\ pc = "loop" /\ i = 1
    /\ tracks \in SeqsUpTo(TrackChoices, 0, MaxTracks)
    /\ lifetime \in LifetimeVals
    /\ cTracks = <<>> /\ aTracks = <<>>
    /\ fillIdle /\ geoIdle

\* one iteration of the for loop of DifferentiateEddies
DifferentiateEddiesIter ==
    /\ op = "DifferentiateEddies" /\ pc = "loop" /\ i <= Len(tracks)
    /\ LET track == tracks[i]
       IN  /\ cTracks' = IF isCyclone(track, lifetime)
                         THEN Append(cTracks, track) ELSE cTracks
           /\ aTracks' = IF isAnticyclone(track, lifetime)
                         THEN Append(aTracks, track) ELSE aTracks
    /\ i' = i + 1
    /\ UNCHANGED <<op, pc, tracks, lifetime, fillVars, geoVars>>

\* return cTracks, aTracks
DifferentiateEddiesReturn ==
    /\ op = "DifferentiateEddies" /\ pc = "loop" /\ i > Len(tracks)
    /\ pc' = "returned"
    /\ UNCHANGED <<op, i, fillVars, geoVars, diffVars>>

Init ==
    \/ InitFill
    \/ InitGeo
    \/ InitDiff

Next ==
    \/ fillCoordsIter
    \/ fillCoordsReturn
    \/ geodistEnter
    \/ geodistIter
    \/ geodistReturn
    \/ DifferentiateEddiesIter
    \/ DifferentiateEddiesReturn

Spec == Init /\ [][Next]_vars

\* ================================================================ claims
Range(s) == {s[k] : k \in DOMAIN s}

StrictlyIncreasing(s) == \A k \in 2 .. Len(s) : s[k - 1] < s[k]

Gapless(s) == \A k \in 2 .. Len(s) : s[k] - s[k - 1] = 1

\* the fraction x equals num / den
IsValue(x, num, den) == x.n * den = num * x.d

FillReturned == op = "fillCoords" /\ pc = "returned"

\* size of the gap in front of input point k
GapSize(k) == trackSteps[k] - trackSteps[k - 1] - 1

HasGap(k) == GapSize(k) > 0

RECURSIVE SumGaps(_)
SumGaps(k) == IF k <= 1 THEN 0
              ELSE SumGaps(k - 1) + (IF HasGap(k) THEN GapSize(k) ELSE 0)

\* where input point k stands in the output: after the k-1 points before it
\* and the points synthesized for the gaps up to it
OutIndex(k) == k + SumGaps(k)

\* the output positions synthesized for the gap in front of input point k
GapPositions(k) == (OutIndex(k - 1) + 1) .. (OutIndex(k) - 1)

\* every synthesized point of every gap satisfies P(k, p): k the input point
\* after the gap, p the output position, which holds the p-th step of the gap
EveryFilled(P(_, _)) ==
    \A k \in 2 .. Len(trackSteps) :
        HasGap(k) =>
            /\ OutIndex(k) <= Len(steps)
            /\ \A p \in GapPositions(k) :
                  /\ steps[p] = trackSteps[k - 1] + (p - OutIndex(k - 1))
                  /\ P(k, p)

SomeGap == \E k \in 2 .. Len(trackSteps) : HasGap(k)

\* C1: for a strictly increasing step sequence and a valid mode, fillCoords
\* does not raise and returns exactly the integers first..last in order, with
\* lons and lats as long as steps, and exactly g points inside each gap of
\* size g.
C1_DenseOutput ==
    (op = "fillCoords" /\ StrictlyIncreasing(trackSteps) /\ fill \in ValidFill) =>
        /\ pc # "ValueError"
        /\ pc = "returned" =>
            LET first == trackSteps[1]
                last == trackSteps[Len(trackSteps)]
            IN  /\ steps = [k \in 1 .. (last - first + 1) |-> first + k - 1]
                /\ Len(lons) = Len(steps)
                /\ Len(lats) = Len(steps)
                /\ Len(steps) = Len(trackSteps) + SumGaps(Len(trackSteps))
                /\ \A k \in 2 .. Len(trackSteps) :
                      Cardinality({p \in DOMAIN steps :
                                     /\ trackSteps[k - 1] < steps[p]
                                     /\ steps[p] < trackSteps[k]}) = GapSize(k)

C1_Witness ==
    /\ FillReturned /\ fill \in ValidFill /\ StrictlyIncreasing(trackSteps)
    /\ Len(trackSteps) = 3 /\ GapSize(2) = 2 /\ GapSize(3) = 1

\* C2: in mode linear the synthesized point at step k of a gap between
\* (p, a) and (s, b) has coordinate a + (b - a) * (k - p) / (s - p).
C2_LinearOnLine ==
    (FillReturned /\ fill = "linear" /\ StrictlyIncreasing(trackSteps)) =>
        EveryFilled(LAMBDA k, p :
            LET span == trackSteps[k] - trackSteps[k - 1]
                off == steps[p] - trackSteps[k - 1]
                a == trackLons[k - 1]
                b == trackLons[k]
                c == trackLats[k - 1]
                e == trackLats[k]
            IN  /\ IsValue(lons[p], a * span + (b - a) * off, span)
                /\ IsValue(lats[p], c * span + (e - c) * off, span))

\* C3: a call with a mode outside midpoint, linear, begin, end never returns
\* output, whatever the step sequence.
C3_UnknownModeFails ==
    (op = "fillCoords" /\ fill \notin ValidFill) => pc # "returned"

\* C4: a call with a step sequence holding a duplicate or a decrease never
\* returns output.
C4_MalformedStepsFail ==
    (op = "fillCoords" /\ ~StrictlyIncreasing(trackSteps)) => pc # "returned"

\* C5: in mode midpoint every synthesized point of a gap has the mean of the
\* coordinates of the observed points before and after the gap.
C5_Midpoint ==
    (FillReturned /\ fill = "midpoint") =>
        EveryFilled(LAMBDA k, p :
            /\ IsValue(lons[p], trackLons[k - 1] + trackLons[k], 2)
            /\ IsValue(lats[p], trackLats[k - 1] + trackLats[k], 2))

C5_Witness ==
    /\ FillReturned /\ fill = "midpoint"
    /\ \E k \in 2 .. Len(trackSteps) :
          /\ GapSize(k) = 2
          /\ trackLons[k - 1] # trackLons[k]
          /\ trackLats[k - 1] # trackLats[k]

\* C6: mode begin gives every synthesized point of a gap the coordinate of
\* the observed point before the gap, mode end that of the point after it.
C6_BeginEnd ==
    /\ (FillReturned /\ fill = "begin") =>
          EveryFilled(LAMBDA k, p :
              /\ IsValue(lons[p], trackLons[k - 1], 1)
              /\ IsValue(lats[p], trackLats[k - 1], 1))
    /\ (FillReturned /\ fill = "end") =>
          EveryFilled(LAMBDA k, p :
              /\ IsValue(lons[p], trackLons[k], 1)
              /\ IsValue(lats[p], trackLats[k], 1))

C6_Witness ==
    /\ FillReturned /\ fill = "end"
    /\ \E k \in 2 .. Len(trackSteps) :
          /\ GapSize(k) = 2
          /\ trackLons[k - 1] # trackLons[k]
          /\ trackLats[k - 1] # trackLats[k]

\* C7: a step sequence whose consecutive steps all differ by 1 (a single
\* point included) comes back unchanged in every valid mode, with its lons
\* and lats.
C7_GaplessRoundTrip ==
    (op = "fillCoords" /\ Gapless(trackSteps) /\ fill \in ValidFill) =>
        /\ pc # "ValueError"
        /\ pc = "returned" =>
            /\ steps = trackSteps
            /\ Len(lons) = Len(trackLons)
            /\ Len(lats) = Len(trackLats)
            /\ \A k \in DOMAIN trackSteps :
                  /\ IsValue(lons[k], trackLons[k], 1)
                  /\ IsValue(lats[k], trackLats[k], 1)

C7_Witness ==
    /\ FillReturned /\ fill \in ValidFill
    /\ Len(trackSteps) = 3 /\ Gapless(trackSteps)
    /\ trackLons[1] # trackLons[3]

\* sum of haversine over the consecutive pairs among the first n points
RECURSIVE PairSum(_)
PairSum(n) ==
    IF n <= 1 THEN 0
    ELSE PairSum(n - 1)
         + haversine(geoLons[n - 1], geoLats[n - 1], geoLons[n], geoLats[n])

\* C8: for equal-length lons and lats geodist returns the sum of haversine
\* over the consecutive pairs in input order, 0 for fewer than two points;
\* after each iteration dist is the sum over the points visited so far.
C8_GeodistSum ==
    (op = "geodist" /\ Len(geoLons) = Len(geoLats)) =>
        /\ pc # "ValueError"
        /\ pc = "loop" => dist = PairSum(i - 1)
        /\ pc = "returned" =>
            /\ dist = PairSum(Len(geoLons))
            /\ Len(geoLons) <= 1 => dist = 0

C8_Witness ==
    /\ op = "geodist" /\ pc = "returned" /\ Len(geoLons) = 3
    /\ haversine(geoLons[1], geoLats[1], geoLons[2], geoLats[2]) = R
    /\ haversine(geoLons[2], geoLats[2], geoLons[3], geoLats[3]) = 2 * R
    /\ dist = 3 * R

\* C9: the cyclonic output is the tracks with last step - first step + 1 >=
\* lifetime and type +1, the anticyclonic output those with the same lifetime
\* condition and type -1, each in input order; any other track is in neither
\* and no track is in both.
C9_Partition ==
    (op = "DifferentiateEddies" /\ pc = "returned") =>
        LET Long(t) == t.step[Len(t.step)] - t.step[1] + 1 >= lifetime
            Cyc(t) == Long(t) /\ t.type[1] = 1
            Anti(t) == Long(t) /\ t.type[1] = -1
        IN  /\ cTracks = SelectSeq(tracks, Cyc)
            /\ aTracks = SelectSeq(tracks, Anti)
            /\ Range(cTracks) \cap Range(aTracks) = {}
            /\ \A k \in DOMAIN tracks :
                  (~Long(tracks[k]) \/ tracks[k].type[1] \notin {1, -1}) =>
                      tracks[k] \notin Range(cTracks) \cup Range(aTracks)

C9_Witness ==
    /\ op = "DifferentiateEddies" /\ pc = "returned"
    /\ Len(cTracks) = 2 /\ cTracks[1] # cTracks[2]
    /\ Len(aTracks) = 1 /\ lifetime = 2
    /\ timesteps(cTracks[1]) = 2

\* C10: for a strictly increasing step sequence and a valid mode every input
\* point stands in the output at the position of its step with its lon and
\* lat, the first output point is the first input point, and the output
\* restricted to the input steps is the input.
C10_ObservedKept ==
    (FillReturned /\ StrictlyIncreasing(trackSteps) /\ fill \in ValidFill) =>
        LET In == [k \in DOMAIN trackSteps |->
                      <<trackSteps[k], Frac(trackLons[k], 1), Frac(trackLats[k], 1)>>]
            Out == [p \in DOMAIN steps |-> <<steps[p], lons[p], lats[p]>>]
            Observed(t) == t[1] \in Range(trackSteps)
        IN  /\ DOMAIN lons = DOMAIN steps /\ DOMAIN lats = DOMAIN steps
            /\ \A k \in DOMAIN trackSteps :
                  LET q == trackSteps[k] - trackSteps[1] + 1
                  IN  q \in DOMAIN steps /\ Out[q] = In[k]
            /\ Out[1] = In[1]
            /\ SelectSeq(Out, Observed) = In

C10_Witness ==
    /\ FillReturned /\ fill = "linear" /\ StrictlyIncreasing(trackSteps)
    /\ Len(trackSteps) = 3 /\ GapSize(2) = 2 /\ GapSize(3) = 1
    /\ trackLons = <<0, 3, 0>>
====
